---- MODULE Spec2Model ----
(***************************************************************************)
(* Auto_Doc: a single-view project form (src/src/App.tsx) and the PDF      *)
(* renderer it calls (src/unnamed/part_000, imported by the view as        *)
(* "@/utils/generatePDF").                                                 *)
(*                                                                         *)
(* Text is modelled as a sequence of one-character strings, so that        *)
(* length, trim, substring and split are computed and not assumed.         *)
(* Lengths on the page are millimetres, as in the source.                  *)
(*                                                                         *)
(* Six specifications share the variables:                                *)
(*   Spec       the view: list edits, colour, submissions, preview dialog  *)
(*   SpecLists  the view's list operations alone, with larger lists        *)
(*   SpecPdf    one call of generateProjectPDF on a record drawn at Init   *)
(*   SpecName   splitNameForHeader on a name drawn at Init                 *)
(*   SpecSubmit the view and the calls of generateProjectPDF it makes      *)
(*   SpecTech   addTechnology / removeTechnology on a stack drawn at Init  *)
(***************************************************************************)
EXTENDS Integers, Sequences, FiniteSets, TLC

VARIABLES
  \* ---- the view (App) ----
  uniqueCode,      \* App.uniqueCode, useState(() => generateUniqueCode())
  team,            \* App.team
  milestones,      \* App.milestones
  techStack,       \* App.techStack
  selectedColor,   \* App.selectedColor
  pdfPreviewUrl,   \* App.pdfPreviewUrl (Null or an object URL)
  subs,            \* the calls of handleFormSubmit, in the order they started
  created,         \* number of object URLs made by URL.createObjectURL
  revoked,         \* object URLs passed to URL.revokeObjectURL
  events,          \* number of user events the view has handled (Spec only)
  \* ---- one call of generateProjectPDF ----
  project,         \* the record passed in
  headerColor,     \* the colour passed in
  opts,            \* the output options passed in
  pc,              \* position in generateProjectPDF
  yPosition,       \* the vertical cursor
  pageCount,       \* doc.getNumberOfPages()
  msIndex,         \* index of the forEach over project.milestones
  footerIndex,     \* i of the footer loop
  drawn,           \* what doc.text / doc.circle have put on the pages
  result,          \* what the call returned or did
  \* ---- one call of splitNameForHeader ----
  name,            \* the argument
  truncated,       \* the local "truncated"
  nameLines,       \* the value returned
  npc              \* position in splitNameForHeader

viewVars == <<uniqueCode, team, milestones, techStack, selectedColor,
              pdfPreviewUrl, subs, created, revoked>>
pdfVars  == <<project, headerColor, opts, pc, yPosition, pageCount, msIndex,
              footerIndex, drawn, result>>
nameVars == <<name, truncated, nameLines, npc>>
vars     == <<viewVars, events, pdfVars, nameVars>>

\* null, for a state that holds null or an object URL (URLs are 1, 2, ...)
Null == 0

(***************************************************************************)
(* Text helpers (String.prototype.trim, substring, split, join).           *)
(***************************************************************************)
IsSpace(c) == c = " "

RECURSIVE TrimStart(_)
TrimStart(s) ==
  IF s = <<>> THEN <<>>
  ELSE IF IsSpace(Head(s)) THEN TrimStart(Tail(s)) ELSE s

RECURSIVE TrimEnd(_)
TrimEnd(s) ==
  IF s = <<>> THEN <<>>
  ELSE IF IsSpace(s[Len(s)]) THEN TrimEnd(SubSeq(s, 1, Len(s) - 1)) ELSE s

Trim(s) == TrimEnd(TrimStart(s))

\* s.substring(0, n)
Substring0(s, n) == SubSeq(s, 1, IF n < Len(s) THEN n ELSE Len(s))

\* s.split(sep) for a one-character separator: the pieces between the
\* separators, empty pieces included
RECURSIVE SplitFrom(_, _, _, _)
SplitFrom(s, sep, i, cur) ==
  IF i > Len(s) THEN <<cur>>
  ELSE IF s[i] = sep THEN <<cur>> \o SplitFrom(s, sep, i + 1, <<>>)
  ELSE SplitFrom(s, sep, i + 1, Append(cur, s[i]))

Split(s, sep) == SplitFrom(s, sep, 1, <<>>)

\* Number.prototype.toString and parseInt on non-negative integers
Digits == <<"0", "1", "2", "3", "4", "5", "6", "7", "8", "9">>

RECURSIVE NumToString(_)
NumToString(n) ==
  IF n < 10 THEN <<Digits[n + 1]>>
  ELSE Append(NumToString(n \div 10), Digits[(n % 10) + 1])

DigitValue(c) == CHOOSE d \in 0..9 : Digits[d + 1] = c

RECURSIVE ParseInt(_)
ParseInt(s) ==
  IF Len(s) = 1 THEN DigitValue(s[1])
  ELSE 10 * ParseInt(SubSeq(s, 1, Len(s) - 1)) + DigitValue(s[Len(s)])

(***************************************************************************)
(* The view's fixed tables.                                                *)
(***************************************************************************)
techCategories ==
  << <<"F","r","o","n","t","e","n","d">>,
     <<"B","a","c","k","e","n","d">>,
     <<"D","a","t","a","b","a","s","e">>,
     <<"D","e","v","O","p","s">>,
     <<"C","l","o","u","d">>,
     <<"T","e","s","t","e","s">>,
     <<"M","o","b","i","l","e">>,
     <<"O","u","t","r","o","s">> >>

PDF_COLORS ==
  << [r |-> 139, g |-> 92,  b |-> 246],
     [r |-> 59,  g |-> 130, b |-> 246],
     [r |-> 34,  g |-> 197, b |-> 94],
     [r |-> 239, g |-> 68,  b |-> 68],
     [r |-> 249, g |-> 115, b |-> 22],
     [r |-> 236, g |-> 72,  b |-> 153],
     [r |-> 6,   g |-> 182, b |-> 212],
     [r |-> 99,  g |-> 102, b |-> 241] >>

statusLabels ==
  [planning    |-> <<"P","l","a","n","e","j","a","m","e","n","t","o">>,
   in_progress |-> <<"E","m"," ","A","n","d","a","m","e","n","t","o">>,
   completed   |-> <<"C","o","n","c","l","u","í","d","o">>,
   on_hold     |-> <<"P","a","u","s","a","d","o">>,
   cancelled   |-> <<"C","a","n","c","e","l","a","d","o">>]

ProjectStatus == {"planning", "in_progress", "completed", "on_hold", "cancelled"}

(***************************************************************************)
(* The view: App (src/src/App.tsx).                                        *)
(***************************************************************************)
\* undefined, for a field that holds undefined or a text
Undefined == <<"undefined">>

\* v || ""
OrEmpty(v) == IF v = Undefined THEN <<>> ELSE v

\* v || undefined
OrUndefined(v) == IF v = <<>> THEN Undefined ELSE v

\* generateUniqueCode: "PRJ-<year>-<month>-<six random characters>"; the
\* random part and the date make the result a choice among codes.
generateUniqueCode ==
  { <<"P","R","J","-","2","0","2","6","-","1","1","-", c, c, c, c, c, c>> :
      c \in {"A", "B"} }

\* mutant of newProject: the code is generated again at the submit
newProjectFreshCode(data, now) ==
  LET code == CHOOSE c \in generateUniqueCode : c # uniqueCode
  IN [id             |-> code,
      uniqueCode     |-> code,
      name           |-> data.name,
      description    |-> OrEmpty(data.description),
      sector         |-> data.sector,
      status         |-> data.status,
      startDate      |-> data.startDate,
      endDate        |-> OrUndefined(OrEmpty(data.endDate)),
      projectManager |-> OrEmpty(data.projectManager),
      team           |-> team,
      milestones     |-> milestones,
      techStack      |-> techStack,
      repository     |-> OrEmpty(data.repository),
      documentation  |-> OrEmpty(data.documentation),
      notes          |-> OrEmpty(data.notes),
      createdAt      |-> now,
      updatedAt      |-> now]

\* the record built by handleFormSubmit from the validated form values and
\* the state the handler closed over
newProject(data, now) ==
  [id             |-> uniqueCode,
   uniqueCode     |-> uniqueCode,
   name           |-> data.name,
   description    |-> OrEmpty(data.description),
   sector         |-> data.sector,
   status         |-> data.status,
   startDate      |-> data.startDate,
   endDate        |-> OrUndefined(OrEmpty(data.endDate)),
   projectManager |-> OrEmpty(data.projectManager),
   team           |-> team,
   milestones     |-> milestones,
   techStack      |-> techStack,
   repository     |-> OrEmpty(data.repository),
   documentation  |-> OrEmpty(data.documentation),
   notes          |-> OrEmpty(data.notes),
   createdAt      |-> now,
   updatedAt      |-> now]

\* handleFormSubmit up to its await: the record is built and the renderer is
\* called.  The handler is the closure of the render in which the submit
\* event arrived, so it keeps that render's pdfPreviewUrl and selectedColor.
handleFormSubmit(data, now) ==
  /\ subs' = Append(subs, [project       |-> newProject(data, now),
                           color         |-> selectedColor,
                           pdfPreviewUrl |-> pdfPreviewUrl,
                           state         |-> "awaiting",
                           url           |-> Null])
  /\ UNCHANGED <<uniqueCode, team, milestones, techStack, selectedColor,
                 pdfPreviewUrl, created, revoked,
                 pdfVars, nameVars>>

\* the object URLs to revoke when the renderer's blob arrives:
\* if (pdfPreviewUrl) URL.revokeObjectURL(pdfPreviewUrl), on the closure's value
revokedOnResolve(sub) ==
  IF sub.pdfPreviewUrl # Null THEN {sub.pdfPreviewUrl} ELSE {}

\* handleFormSubmit after its await, the renderer having returned a Blob
renderResolved(i) ==
  /\ i \in 1..Len(subs)
  /\ subs[i].state = "awaiting"
  /\ revoked' = revoked \cup revokedOnResolve(subs[i])
  /\ created' = created + 1
  /\ pdfPreviewUrl' = created + 1
  /\ subs' = [subs EXCEPT ![i].state = "done", ![i].url = created + 1]
  /\ UNCHANGED <<uniqueCode, team, milestones, techStack, selectedColor,
                 pdfVars, nameVars>>

\* the renderer's promise rejects (QRCode.toDataURL failed): the handler's
\* continuation never runs
renderRejected(i) ==
  /\ i \in 1..Len(subs)
  /\ subs[i].state = "awaiting"
  /\ subs' = [subs EXCEPT ![i].state = "rejected"]
  /\ UNCHANGED <<uniqueCode, team, milestones, techStack, selectedColor,
                 pdfPreviewUrl, created, revoked,
                 pdfVars, nameVars>>

\* Dialog onOpenChange={() => setPdfPreviewUrl(null)}
onOpenChange ==
  /\ pdfPreviewUrl # Null
  /\ pdfPreviewUrl' = Null
  /\ UNCHANGED <<uniqueCode, team, milestones, techStack, selectedColor,
                 subs, created, revoked,
                 pdfVars, nameVars>>

setSelectedColor(c) ==
  /\ selectedColor' = c
  /\ UNCHANGED <<uniqueCode, team, milestones, techStack, pdfPreviewUrl,
                 subs, created, revoked,
                 pdfVars, nameVars>>

\* setTeam((prev) => [...prev, newTeamMember.trim()]) under its guard
addTeamMemberTo(prev, newTeamMember) ==
  IF Trim(newTeamMember) # <<>>
  THEN Append(prev, Trim(newTeamMember))
  ELSE prev

\* mutant of addTeamMember: team.push(name), on the array that the records
\* built from it hold as well
addTeamMemberInPlace(newTeamMember) ==
  /\ team' = addTeamMemberTo(team, newTeamMember)
  /\ subs' = [i \in 1..Len(subs) |->
               IF subs[i].project.team = team
               THEN [subs[i] EXCEPT !.project.team = team']
               ELSE subs[i]]
  /\ UNCHANGED <<uniqueCode, milestones, techStack, selectedColor,
                 pdfPreviewUrl, created, revoked,
                 pdfVars, nameVars>>

addTeamMember(newTeamMember) ==
  /\ team' = addTeamMemberTo(team, newTeamMember)
  /\ UNCHANGED <<uniqueCode, milestones, techStack, selectedColor,
                 pdfPreviewUrl, subs, created, revoked,
                 pdfVars, nameVars>>

\* mutant of removeTeamMemberFrom: the entries of that name are removed
removeTeamMemberByName(prev, index) ==
  IF index \in 0..(Len(prev) - 1)
  THEN SelectSeq(prev, LAMBDA t : t # prev[index + 1])
  ELSE prev

\* prev.filter((_, i) => i !== index); index is 0-based, as in the source
removeTeamMemberFrom(prev, index) ==
  [k \in 1..(Len(prev) - (IF index \in 0..(Len(prev) - 1) THEN 1 ELSE 0)) |->
     IF k - 1 < index \/ index < 0 THEN prev[k] ELSE prev[k + 1]]

removeTeamMember(index) ==
  /\ team' = removeTeamMemberFrom(team, index)
  /\ UNCHANGED <<uniqueCode, milestones, techStack, selectedColor,
                 pdfPreviewUrl, subs, created, revoked,
                 pdfVars, nameVars>>

\* mutant of nextMilestoneId: the number of milestones plus one
nextMilestoneIdByLength == NumToString(Len(milestones) + 1)

nextMilestoneId ==
  IF Len(milestones) # 0
  THEN NumToString(ParseInt(milestones[Len(milestones)].id) + 1)
  ELSE <<"1">>

\* mutant of addMilestone: the title is tested as it was typed
addMilestoneUntrimmed(newMilestone) ==
  /\ milestones' =
       IF newMilestone.title # <<>>
       THEN Append(milestones, [id          |-> nextMilestoneId,
                                title       |-> Trim(newMilestone.title),
                                description |-> Trim(newMilestone.description),
                                completed   |-> FALSE])
       ELSE milestones
  /\ UNCHANGED <<uniqueCode, team, techStack, selectedColor,
                 pdfPreviewUrl, subs, created, revoked,
                 pdfVars, nameVars>>

addMilestone(newMilestone) ==
  /\ milestones' =
       IF Trim(newMilestone.title) # <<>>
       THEN Append(milestones, [id          |-> nextMilestoneId,
                                title       |-> Trim(newMilestone.title),
                                description |-> Trim(newMilestone.description),
                                completed   |-> FALSE])
       ELSE milestones
  /\ UNCHANGED <<uniqueCode, team, techStack, selectedColor,
                 pdfPreviewUrl, subs, created, revoked,
                 pdfVars, nameVars>>

\* mutant of removeMilestone: the entries kept are moved, last one first
removeMilestoneRotating(id) ==
  /\ milestones' =
       LET kept == SelectSeq(milestones, LAMBDA m : m.id # id)
       IN IF kept = <<>> THEN kept
          ELSE <<kept[Len(kept)]>> \o SubSeq(kept, 1, Len(kept) - 1)
  /\ UNCHANGED <<uniqueCode, team, techStack, selectedColor,
                 pdfPreviewUrl, subs, created, revoked,
                 pdfVars, nameVars>>

removeMilestone(id) ==
  /\ milestones' = SelectSeq(milestones, LAMBDA m : m.id # id)
  /\ UNCHANGED <<uniqueCode, team, techStack, selectedColor,
                 pdfPreviewUrl, subs, created, revoked,
                 pdfVars, nameVars>>

\* techStack.find((s) => s.category === category) is defined
hasCategory(stack, category) ==
  \E k \in 1..Len(stack) : stack[k].category = category

\* mutant of addTechnologyTo: a group is appended even when the category
\* has one
addTechnologyToNewGroup(stack, newTech) ==
  IF Trim(newTech.technology) # <<>>
  THEN Append(stack, [category     |-> newTech.category,
                      technologies |-> <<Trim(newTech.technology)>>])
  ELSE stack

addTechnologyTo(stack, newTech) ==
  IF Trim(newTech.technology) # <<>>
  THEN IF hasCategory(stack, newTech.category)
       THEN [k \in 1..Len(stack) |->
               IF stack[k].category = newTech.category
               THEN [stack[k] EXCEPT !.technologies =
                       Append(@, Trim(newTech.technology))]
               ELSE stack[k]]
       ELSE Append(stack, [category     |-> newTech.category,
                           technologies |-> <<Trim(newTech.technology)>>])
  ELSE stack

addTechnology(newTech) ==
  /\ techStack' = addTechnologyTo(techStack, newTech)
  /\ UNCHANGED <<uniqueCode, team, milestones, selectedColor,
                 pdfPreviewUrl, subs, created, revoked,
                 pdfVars, nameVars>>

\* s.technologies.filter((t) => t !== tech)
withoutTech(technologies, tech) == SelectSeq(technologies, LAMBDA t : t # tech)

\* mutant of removeTechnologyFrom: an emptied group stays in the list
removeTechnologyKeepingGroups(stack, category, tech) ==
  [k \in 1..Len(stack) |->
     IF stack[k].category = category
     THEN [stack[k] EXCEPT !.technologies = withoutTech(@, tech)]
     ELSE stack[k]]

removeTechnologyFrom(stack, category, tech) ==
  SelectSeq([k \in 1..Len(stack) |->
            IF stack[k].category = category
            THEN [stack[k] EXCEPT !.technologies = withoutTech(@, tech)]
            ELSE stack[k]],
         LAMBDA s : Len(s.technologies) > 0)

removeTechnology(category, tech) ==
  /\ techStack' = removeTechnologyFrom(techStack, category, tech)
  /\ UNCHANGED <<uniqueCode, team, milestones, selectedColor,
                 pdfPreviewUrl, subs, created, revoked,
                 pdfVars, nameVars>>

(***************************************************************************)
(* The renderer's name helpers (src/unnamed/part_000).                     *)
(***************************************************************************)
\* mutant of truncateName: the ellipsis is counted in maxLength
truncateNameWithin(nm, maxLength) ==
  IF Len(nm) <= maxLength THEN nm
  ELSE Substring0(nm, maxLength - 3) \o <<".",".",".">>

\* mutant of truncateName: the name is cut ten characters later
truncateNameLate(nm, maxLength) ==
  IF Len(nm) <= maxLength + 10 THEN nm
  ELSE Substring0(nm, maxLength + 10) \o <<".",".",".">>

\* mutant of truncateName: the name is wrapped as it is
truncateNameNever(nm, maxLength) == nm

truncateName(nm, maxLength) ==
  IF Len(nm) <= maxLength THEN nm
  ELSE Substring0(nm, maxLength) \o <<".",".",".">>

\* the for-loop of splitNameForHeader over the words, from the given
\* lines / currentLine, followed by the push of the last line
RECURSIVE wrapWords(_, _, _, _)
wrapWords(words, lines, currentLine, maxLineLength) ==
  IF words = <<>>
  THEN IF currentLine # <<>> THEN Append(lines, currentLine) ELSE lines
  ELSE LET word == Head(words)
           candidate == Trim(currentLine \o <<" ">> \o word)
       IN IF Len(candidate) <= maxLineLength
          THEN wrapWords(Tail(words), lines, candidate, maxLineLength)
          ELSE wrapWords(Tail(words),
                         IF currentLine # <<>> THEN Append(lines, currentLine)
                                               ELSE lines,
                         word, maxLineLength)

\* mutant of wrapTruncated: the line open at the end of the loop is not pushed
wrapTruncatedWithoutLastPush(trunc, maxLineLength) ==
  IF Len(trunc) <= maxLineLength THEN <<trunc>>
  ELSE LET all == wrapWords(Split(trunc, " "), <<>>, <<>>, maxLineLength)
           lines == SubSeq(all, 1, Len(all) - 1)
       IN IF Len(lines) > 0 THEN lines
          ELSE <<Substring0(trunc, maxLineLength)>>

\* splitNameForHeader after the truncation
wrapTruncated(trunc, maxLineLength) ==
  IF Len(trunc) <= maxLineLength THEN <<trunc>>
  ELSE LET lines == wrapWords(Split(trunc, " "), <<>>, <<>>, maxLineLength)
       IN IF Len(lines) > 0 THEN lines
          ELSE <<Substring0(trunc, maxLineLength)>>

splitNameForHeader(nm, maxLineLength) ==
  wrapTruncated(truncateName(nm, 30), maxLineLength)

\* splitNameForHeader, line 14
truncateStep ==
  /\ npc = "truncate"
  /\ truncated' = truncateName(name, 30)
  /\ npc' = "wrap"
  /\ UNCHANGED <<name, nameLines,
                 viewVars, events, pdfVars>>

\* splitNameForHeader, lines 15-31
wrapStep ==
  /\ npc = "wrap"
  /\ nameLines' = wrapTruncated(truncated, 20)
  /\ npc' = "done"
  /\ UNCHANGED <<name, truncated,
                 viewVars, events, pdfVars>>

(***************************************************************************)
(* generateProjectPDF (src/unnamed/part_000).                              *)
(***************************************************************************)
\* Array.prototype.join
RECURSIVE Join(_, _)
Join(parts, sep) ==
  IF parts = <<>> THEN <<>>
  ELSE IF Len(parts) = 1 THEN parts[1]
  ELSE parts[1] \o sep \o Join(Tail(parts), sep)

\* doc.splitTextToSize(text, maxWidth): jsPDF splits at line breaks and then
\* wraps each paragraph at maxWidth; every paragraph of the texts drawn
\* here is narrower than maxWidth, so only the line breaks split.
splitTextToSize(text) == Split(text, "\n")

\* the distance between the baselines of a multi-line doc.text, in
\* hundredths of a millimetre: font size (pt) * jsPDF's line height factor
\* 1.15, converted from points (72 per inch of 25.4 mm)
lineHeight(fontSize) == (fontSize * 115 * 254) \div 720

\* name.replace(/\s+/g, "_")
RECURSIVE replaceWhitespace(_)
replaceWhitespace(s) ==
  IF s = <<>> THEN <<>>
  ELSE IF IsSpace(Head(s))
       THEN <<"_">> \o replaceWhitespace(TrimStart(s))
       ELSE <<Head(s)>> \o replaceWhitespace(Tail(s))

\* new Date(iso).toLocaleDateString("pt-BR") of "yyyy-mm-dd": "dd/mm/yyyy"
\* (the time zone of the browser is not modelled)
toLocaleDateString(iso) ==
  SubSeq(iso, 9, 10) \o <<"/">> \o SubSeq(iso, 6, 7) \o <<"/">> \o SubSeq(iso, 1, 4)

\* new Date().toLocaleString("pt-BR") at the time of the call
generatedAt == <<"0","1","/","1","1","/","2","0","2","6",","," ","1","2",":","0","0",":","0","0">>

\* one doc.text(...) or doc.circle(...) on the current page
Text(block, page, y, size, lines) ==
  [kind |-> "text", block |-> block, page |-> page, y |-> y, size |-> size,
   lines |-> lines, style |-> ""]

Circle(block, page, y, style) ==
  [kind |-> "circle", block |-> block, page |-> page, y |-> y, size |-> 0,
   lines |-> <<>>, style |-> style]

\* const doc = new jsPDF(); then await QRCode.toDataURL(project.uniqueCode):
\* the encoder resolves with an image
qrResolved ==
  /\ pc = "qr"
  /\ pc' = "header"
  /\ UNCHANGED <<project, headerColor, opts, yPosition, pageCount, msIndex,
                 footerIndex, drawn, result,
                 viewVars, events, nameVars>>

\* the encoder rejects: the promise of generateProjectPDF rejects with it
qrRejected ==
  /\ pc = "qr"
  /\ pc' = "rejected"
  /\ result' = [kind |-> "rejected", pages |-> 0, fileName |-> <<>>,
                calls |-> <<>>]
  /\ UNCHANGED <<project, headerColor, opts, yPosition, pageCount, msIndex,
                 footerIndex, drawn,
                 viewVars, events, nameVars>>

\* lines 63-99: the header band, name, sector, code, QR image
\* const headerY = nameLines.length > 1 ? 18 : 22, for that many name lines
headerY(lineCount) == IF lineCount > 1 THEN 18 ELSE 22

\* const infoStartY = headerY + nameLines.length * 8 + 2
infoStartY(lineCount) == headerY(lineCount) + lineCount * 8 + 2

\* doc.rect(0, 0, pageWidth, 55, "F"): the height of the header band
headerHeight == 55

drawHeader ==
  /\ pc = "header"
  /\ LET nameLinesH == splitNameForHeader(project.name, 20)
         size == IF Len(nameLinesH) > 1 THEN 18 ELSE 22
         lineCount == Len(nameLinesH)
     IN drawn' = drawn
          \o [k \in 1..lineCount |->
                Text("name", pageCount, headerY(lineCount) + (k - 1) * 8, size,
                     <<nameLinesH[k]>>)]
          \o << Text("header", pageCount, infoStartY(lineCount), 11,
                     << <<"S","e","t","o","r",":"," ">> \o project.sector >>),
                Text("header", pageCount, infoStartY(lineCount) + 7, 11,
                     << <<"C","o","d","i","g","o",":"," ">> \o project.uniqueCode >>) >>
  /\ yPosition' = 70
  /\ pc' = "status"
  /\ UNCHANGED <<project, headerColor, opts, pageCount, msIndex, footerIndex,
                 result,
                 viewVars, events, nameVars>>

\* lines 103-114: the status badge
drawStatus ==
  /\ pc = "status"
  /\ drawn' = Append(drawn, Text("status", pageCount, yPosition, 9,
                                 <<statusLabels[project.status]>>))
  /\ yPosition' = yPosition + 15
  /\ pc' = "info"
  /\ UNCHANGED <<project, headerColor, opts, pageCount, msIndex, footerIndex,
                 result,
                 viewVars, events, nameVars>>

\* project.team.slice(0, 3).join(", ") + (project.team.length > 3 ? "..." : "")
\*   || "Nao definida"
teamText(t) ==
  LET joined == Join(SubSeq(t, 1, IF Len(t) < 3 THEN Len(t) ELSE 3), <<","," ">>)
                  \o (IF Len(t) > 3 THEN <<".",".",".">> ELSE <<>>)
  IN IF joined = <<>> THEN <<"N","a","o"," ","d","e","f","i","n","i","d","a">> ELSE joined

infoItems ==
  << << <<"D","a","t","a"," ","d","e"," ","I","n","i","c","i","o">>, toLocaleDateString(project.startDate) >>,
     << <<"D","a","t","a"," ","d","e"," ","T","e","r","m","i","n","o">>,
        IF project.endDate # Undefined
        THEN toLocaleDateString(project.endDate)
        ELSE <<"N","a","o"," ","d","e","f","i","n","i","d","a">> >>,
     << <<"G","e","r","e","n","t","e">>, project.projectManager >>,
     << <<"E","q","u","i","p","e">>, teamText(project.team) >> >>

\* lines 116-155: the project information card
drawInfo ==
  /\ pc = "info"
  /\ drawn' = drawn
       \o << Text("info", pageCount, yPosition + 3, 12,
                  << <<"I","n","f","o","r","m","a","c","o","e","s"," ","d","o"," ","P","r","o","j","e","t","o">> >>) >>
       \o [k \in 1..(2 * Len(infoItems)) |->
             LET item == infoItems[(k + 1) \div 2]
                 y == yPosition + 12 + ((k + 1) \div 2 - 1) * 7
             IN IF k % 2 = 1
                THEN Text("info", pageCount, y, 10, << item[1] \o <<":">> >>)
                ELSE Text("info", pageCount, y, 10, << item[2] >>)]
  /\ yPosition' = yPosition + 12 + Len(infoItems) * 7 + 10
  /\ pc' = "description"
  /\ UNCHANGED <<project, headerColor, opts, pageCount, msIndex, footerIndex,
                 result,
                 viewVars, events, nameVars>>

Min(a, b) == IF a < b THEN a ELSE b

\* Math.min(descLines.length, 6) * 5 + 15, then + 4, after the + 10 of the heading
descriptionAdvance(n) == 10 + Min(n, 6) * 5 + 15 + 4

\* lines 157-176: the description card
drawDescription ==
  /\ pc = "description"
  /\ IF project.description # <<>>
     THEN LET descLines == splitTextToSize(project.description)
          IN /\ drawn' = drawn
                  \o << Text("description", pageCount, yPosition + 3, 12,
                             << <<"D","e","s","c","r","i","c","a","o">> >>),
                        Text("description", pageCount, yPosition + 10, 9,
                             descLines) >>
             /\ yPosition' = yPosition + descriptionAdvance(Len(descLines))
     ELSE UNCHANGED <<drawn, yPosition>>
  /\ pc' = "techStack"
  /\ UNCHANGED <<project, headerColor, opts, pageCount, msIndex, footerIndex,
                 result,
                 viewVars, events, nameVars>>

\* mutant of hasTechStack: >= for >
hasTechStackAlways(stack) == Len(stack) >= 0

\* project.techStack.length > 0
hasTechStack(stack) == Len(stack) > 0

\* lines 178-197: the tech stack, one line per group
drawTechStack ==
  /\ pc = "techStack"
  /\ IF hasTechStack(project.techStack)
     THEN /\ drawn' = drawn
               \o << Text("techStack", pageCount, yPosition, 12,
                          << <<"S","t","a","c","k"," ","T","e","c","n","o","l","ó","g","i","c","a">> >>) >>
               \o [k \in 1..(2 * Len(project.techStack)) |->
                     LET stack == project.techStack[(k + 1) \div 2]
                         y == yPosition + 8 + ((k + 1) \div 2 - 1) * 7
                     IN IF k % 2 = 1
                        THEN Text("techStack", pageCount, y, 10,
                                  << stack.category \o <<":">> >>)
                        ELSE Text("techStack", pageCount, y, 10,
                                  << Join(stack.technologies, <<","," ">>) >>)]
          /\ yPosition' = yPosition + 8 + Len(project.techStack) * 7 + 5
     ELSE UNCHANGED <<drawn, yPosition>>
  /\ pc' = "milestones"
  /\ UNCHANGED <<project, headerColor, opts, pageCount, msIndex, footerIndex,
                 result,
                 viewVars, events, nameVars>>

\* mutant of breakBeforeMilestone: the test is against the page height
breakBeforeMilestoneAtPageEnd(y) == y > 297

\* the page-break tests: a new page when the cursor is below the threshold
\* mutant of breakBeforeNotes: the notes never start a page
breakBeforeNotesNever(y) == FALSE

breakBeforeMilestones(y) == y > 220
breakBeforeMilestone(y)  == y > 260
breakBeforeLinks(y)      == y > 240
breakBeforeNotes(y)      == y > 230

\* lines 200-210: the milestones heading (and the end of the block when the
\* list is empty)
drawMilestonesHeading ==
  /\ pc = "milestones"
  /\ IF Len(project.milestones) > 0
     THEN LET brk == breakBeforeMilestones(yPosition)
              y == IF brk THEN 20 ELSE yPosition
              page == IF brk THEN pageCount + 1 ELSE pageCount
          IN /\ pageCount' = page
             /\ drawn' = Append(drawn, Text("milestones", page, y, 12,
                                  << <<"P","o","n","t","o","s"," ","d","o"," ","P","r","o","j","e","t","o"," ","(","M","i","l","e","s","t","o","n","e","s",")">> >>))
             /\ yPosition' = y + 10
             /\ msIndex' = 1
             /\ pc' = "milestone"
     ELSE /\ pc' = "links"
          /\ UNCHANGED <<pageCount, drawn, yPosition, msIndex>>
  /\ UNCHANGED <<project, headerColor, opts, footerIndex, result,
                 viewVars, events, nameVars>>

\* Math.min(milestoneLines.length, 2) * 4 + 3
milestoneDescriptionAdvance(n) == Min(n, 2) * 4 + 3

\* lines 213-249: one turn of the forEach over the milestones
drawMilestone ==
  /\ pc = "milestone"
  /\ msIndex <= Len(project.milestones)
  /\ LET milestone == project.milestones[msIndex]
         brk == breakBeforeMilestone(yPosition)
         y == IF brk THEN 20 ELSE yPosition
         page == IF brk THEN pageCount + 1 ELSE pageCount
         milestoneLines == splitTextToSize(milestone.description)
         title == << Circle("milestones", page, y - 3,
                            IF milestone.completed THEN "F" ELSE "S"),
                     Text("milestones", page, y, 9,
                          << NumToString(msIndex) \o <<"."," ">> \o milestone.title >>) >>
     IN /\ pageCount' = page
        /\ IF milestone.description # <<>>
           THEN /\ drawn' = drawn \o title
                     \o << Text("milestones", page, y + 5, 9,
                                SubSeq(milestoneLines, 1,
                                       Min(Len(milestoneLines), 2))) >>
                /\ yPosition' = y + 5
                     + milestoneDescriptionAdvance(Len(milestoneLines))
           ELSE /\ drawn' = drawn \o title
                /\ yPosition' = y + 5
  /\ msIndex' = msIndex + 1
  /\ UNCHANGED <<project, headerColor, opts, pc, footerIndex, result,
                 viewVars, events, nameVars>>

\* line 250: after the forEach
endMilestones ==
  /\ pc = "milestone"
  /\ msIndex > Len(project.milestones)
  /\ yPosition' = yPosition + 5
  /\ pc' = "links"
  /\ UNCHANGED <<project, headerColor, opts, pageCount, msIndex, footerIndex,
                 drawn, result,
                 viewVars, events, nameVars>>

\* s.length > 50 ? s.substring(0, 50) + "..." : s
linkText(s) == IF Len(s) > 50 THEN Substring0(s, 50) \o <<".",".",".">> ELSE s

\* lines 253-293: repository and documentation
drawLinks ==
  /\ pc = "links"
  /\ IF project.repository # <<>> \/ project.documentation # <<>>
     THEN LET brk == breakBeforeLinks(yPosition)
              y == IF brk THEN 20 ELSE yPosition
              page == IF brk THEN pageCount + 1 ELSE pageCount
              hasRepo == project.repository # <<>>
              hasDoc == project.documentation # <<>>
              yDoc == y + 8 + (IF hasRepo THEN 6 ELSE 0)
          IN /\ pageCount' = page
             /\ drawn' = drawn
                  \o << Text("links", page, y, 12, << <<"L","i","n","k","s">> >>) >>
                  \o (IF hasRepo
                      THEN << Text("links", page, y + 8, 9, << <<"R","e","p","o","s","i","t","o","r","i","o",":">> >>),
                              Text("links", page, y + 8, 9,
                                   << linkText(project.repository) >>) >>
                      ELSE <<>>)
                  \o (IF hasDoc
                      THEN << Text("links", page, yDoc, 9, << <<"D","o","c","u","m","e","n","t","a","c","a","o",":">> >>),
                              Text("links", page, yDoc, 9,
                                   << linkText(project.documentation) >>) >>
                      ELSE <<>>)
             /\ yPosition' = yDoc + (IF hasDoc THEN 10 ELSE 0)
     ELSE UNCHANGED <<pageCount, drawn, yPosition>>
  /\ pc' = "notes"
  /\ UNCHANGED <<project, headerColor, opts, msIndex, footerIndex, result,
                 viewVars, events, nameVars>>

\* lines 295-318: the notes card
drawNotes ==
  /\ pc = "notes"
  /\ IF project.notes # <<>>
     THEN LET brk == breakBeforeNotes(yPosition)
              y == IF brk THEN 20 ELSE yPosition
              page == IF brk THEN pageCount + 1 ELSE pageCount
              notesLines == splitTextToSize(project.notes)
          IN /\ pageCount' = page
             /\ drawn' = drawn
                  \o << Text("notes", page, y + 3, 12, << <<"O","b","s","e","r","v","a","c","o","e","s">> >>),
                        Text("notes", page, y + 10, 9,
                             SubSeq(notesLines, 1, Min(Len(notesLines), 4))) >>
             /\ yPosition' = y + 10
     ELSE UNCHANGED <<pageCount, drawn, yPosition>>
  /\ pc' = "footer"
  /\ footerIndex' = 1
  /\ UNCHANGED <<project, headerColor, opts, msIndex, result,
                 viewVars, events, nameVars>>

\* doc.internal.pageSize.getHeight() of the default A4 page, rounded to mm
pageHeight == 297

\* mutant of footerText: the total is the number of the page being written
footerTextRunning(i, total) ==
  <<"G","e","r","a","d","o"," ","e","m"," ">> \o generatedAt \o <<" ","|"," ","P","a","g","i","n","a"," ">> \o NumToString(i)
    \o <<" ","d","e"," ">> \o NumToString(i)

\* `Gerado em ${...} | Pagina ${i} de ${pageCount}`
footerText(i, total) ==
  <<"G","e","r","a","d","o"," ","e","m"," ">> \o generatedAt \o <<" ","|"," ","P","a","g","i","n","a"," ">> \o NumToString(i)
    \o <<" ","d","e"," ">> \o NumToString(total)

\* lines 320-334: one turn of the footer loop; pageCount was read from
\* doc.getNumberOfPages() when the loop began and no page is added after
drawFooter ==
  /\ pc = "footer"
  /\ footerIndex <= pageCount
  /\ drawn' = Append(drawn, Text("footer", footerIndex, pageHeight - 10, 8,
                                 << footerText(footerIndex, pageCount) >>))
  /\ footerIndex' = footerIndex + 1
  /\ UNCHANGED <<project, headerColor, opts, pc, yPosition, pageCount, msIndex,
                 result,
                 viewVars, events, nameVars>>

\* mutant of output: the print branch does not return and goes on to save
outputPrintAndSave ==
  /\ pc = "footer"
  /\ footerIndex > pageCount
  /\ LET safeName == Substring0(replaceWhitespace(project.name), 20)
         fileName == project.uniqueCode \o <<"-">> \o safeName
                       \o <<".","p","d","f">>
     IN result' =
          IF opts.returnBlob
          THEN [kind |-> "blob", pages |-> pageCount, fileName |-> <<>>,
                calls |-> <<>>]
          ELSE IF opts.openPrint
          THEN [kind |-> "print", pages |-> pageCount, fileName |-> fileName,
                calls |-> <<"createObjectURL", "window.open", "doc.save">>]
          ELSE [kind |-> "save", pages |-> pageCount, fileName |-> fileName,
                calls |-> <<"createObjectURL", "doc.save">>]
  /\ pc' = "done"
  /\ UNCHANGED <<project, headerColor, opts, yPosition, pageCount, msIndex,
                 footerIndex, drawn,
                 viewVars, events, nameVars>>

\* lines 336-358: the output.  kind is how the call ended (the blob
\* returned, the print view, the file saved), calls are the calls made on
\* the browser and on the document after doc.output("blob")
output ==
  /\ pc = "footer"
  /\ footerIndex > pageCount
  /\ LET safeName == Substring0(replaceWhitespace(project.name), 20)
         fileName == project.uniqueCode \o <<"-">> \o safeName
                       \o <<".","p","d","f">>
     IN result' =
          IF opts.returnBlob
          THEN [kind |-> "blob", pages |-> pageCount, fileName |-> <<>>,
                calls |-> <<>>]
          ELSE IF opts.openPrint
          THEN [kind |-> "print", pages |-> pageCount, fileName |-> <<>>,
                calls |-> <<"createObjectURL", "window.open">>]
          ELSE [kind |-> "save", pages |-> pageCount, fileName |-> fileName,
                calls |-> <<"createObjectURL", "doc.save">>]
  /\ pc' = "done"
  /\ UNCHANGED <<project, headerColor, opts, yPosition, pageCount, msIndex,
                 footerIndex, drawn,
                 viewVars, events, nameVars>>

(***************************************************************************)
(* Bounds and the inputs drawn from them.                                  *)
(***************************************************************************)
MaxEvents         == 3    \* user events in one behaviour of Spec
ListMaxTeam       == 3    \* entries of team in SpecLists
ListMaxMilestones == 3    \* entries of milestones in SpecLists
ListMaxId         == 4    \* largest milestone id in SpecLists
ListMaxTechs      == 3    \* technologies over all groups in SpecLists
PdfMaxMilestones  == 12   \* milestones of a rendered record
MaxDescLines      == 15   \* lines of a rendered description
MaxNameLen        == 45   \* characters of a name given to splitNameForHeader

Ana     == <<"A","n","a">>
Kickoff == <<"K","i","c","k","o","f","f">>
React   == <<"R","e","a","c","t">>
Vue     == <<"V","u","e">>

\* what the user may have typed in the "add" inputs
ViewTeamInputs == { <<>>, <<" ">>, <<" ","A","n","a">> }
ListTeamInputs == { <<>>, <<" ">>, Ana, <<" ","B","o","b"," ">> }

ViewMilestoneInputs ==
  { [title |-> t, description |-> <<>>] : t \in { <<>>, <<" ">>, Kickoff } }
ListMilestoneInputs ==
  { [title |-> t, description |-> d] :
      t \in { <<>>, <<" ">>, <<"K","i","c","k","o","f","f"," ">> }, d \in { <<" ","o","k">> } }

ViewTechInputs ==
  { [category |-> techCategories[1], technology |-> t] :
      t \in { <<>>, <<" ">>, React } }
ListTechInputs ==
  { [category |-> techCategories[c], technology |-> t] :
      c \in 1..2, t \in { <<" ">>, React, <<"V","u","e"," ">> } }

ViewColors == { PDF_COLORS[k] : k \in 1..2 }

\* form values that pass projectFormSchema
FormData ==
  { [name |-> <<"A","p","p">>, sector |-> <<"T","I">>, description |-> Undefined,
     status |-> "planning", startDate |-> <<"2","0","2","6","-","1","1","-","0","1">>, endDate |-> <<>>,
     projectManager |-> Undefined, repository |-> <<>>,
     documentation |-> Undefined, notes |-> Undefined],
    [name |-> <<"A","u","t","o"," ","D","o","c">>, sector |-> <<"T","I">>, description |-> <<"d">>,
     status |-> "in_progress", startDate |-> <<"2","0","2","6","-","1","1","-","0","1">>,
     endDate |-> <<"2","0","2","6","-","1","2","-","0","1">>, projectManager |-> Ana,
     repository |-> <<"h","t","t","p","s",":","/","/","a",".","b">>, documentation |-> <<>>,
     notes |-> <<"n">>] }

\* new Date().toISOString() at the submit
Times == 1..2

techCount(stack) ==
  LET RECURSIVE sum(_)
      sum(k) == IF k = 0 THEN 0 ELSE Len(stack[k].technologies) + sum(k - 1)
  IN sum(Len(stack))

(***************************************************************************)
(* Spec: the view.                                                         *)
(***************************************************************************)
InitView ==
  /\ uniqueCode \in generateUniqueCode
  /\ team = <<>>
  /\ milestones = <<>>
  /\ techStack = <<>>
  /\ selectedColor = PDF_COLORS[1]
  /\ pdfPreviewUrl = Null
  /\ subs = <<>>
  /\ created = 0
  /\ revoked = {}

NoProject ==
  [id |-> <<>>, uniqueCode |-> <<>>, name |-> <<>>, description |-> <<>>,
   sector |-> <<>>, status |-> "planning", startDate |-> <<>>,
   endDate |-> Undefined, projectManager |-> <<>>, team |-> <<>>,
   milestones |-> <<>>, techStack |-> <<>>, repository |-> <<>>,
   documentation |-> <<>>, notes |-> <<>>, createdAt |-> 0, updatedAt |-> 0]

NoResult == [kind |-> "pending", pages |-> 0, fileName |-> <<>>, calls |-> <<>>]

\* no call of generateProjectPDF is being followed
PdfIdle ==
  /\ project = NoProject
  /\ headerColor = PDF_COLORS[1]
  /\ opts = [returnBlob |-> FALSE, openPrint |-> FALSE]
  /\ pc = "idle"
  /\ yPosition = 0
  /\ pageCount = 0
  /\ msIndex = 0
  /\ footerIndex = 0
  /\ drawn = <<>>
  /\ result = NoResult

\* no call of splitNameForHeader is being followed
NameIdle ==
  /\ name = <<>>
  /\ truncated = <<>>
  /\ nameLines = <<>>
  /\ npc = "idle"

\* no view is mounted
ViewIdle ==
  /\ uniqueCode = <<>>
  /\ team = <<>>
  /\ milestones = <<>>
  /\ techStack = <<>>
  /\ selectedColor = PDF_COLORS[1]
  /\ pdfPreviewUrl = Null
  /\ subs = <<>>
  /\ created = 0
  /\ revoked = {}

Init == InitView /\ events = 0 /\ PdfIdle /\ NameIdle

\* a user event, counted
UserEvent(A) == events < MaxEvents /\ events' = events + 1 /\ A

\* a user event on the form: <Dialog open={pdfPreviewUrl !== null} modal>
\* covers the form while a preview is shown, so the form takes events only
\* while pdfPreviewUrl is null
FormEvent(A) == pdfPreviewUrl = Null /\ UserEvent(A)

\* the continuation of an awaited call, not a user event
Continuation(A) == A /\ UNCHANGED events

Next ==
  \/ \E data \in FormData, now \in Times :
       FormEvent(handleFormSubmit(data, now))
  \/ \E i \in 1..Len(subs) : Continuation(renderResolved(i))
  \/ \E i \in 1..Len(subs) : Continuation(renderRejected(i))
  \/ UserEvent(onOpenChange)
  \/ \E c \in ViewColors : FormEvent(setSelectedColor(c))
  \/ \E x \in ViewTeamInputs : FormEvent(addTeamMember(x))
  \/ \E index \in 0..(Len(team) - 1) : FormEvent(removeTeamMember(index))
  \/ \E x \in ViewMilestoneInputs : FormEvent(addMilestone(x))
  \/ \E k \in 1..Len(milestones) : FormEvent(removeMilestone(milestones[k].id))
  \/ \E x \in ViewTechInputs : FormEvent(addTechnology(x))
  \/ \E k \in 1..Len(techStack) :
       \E j \in 1..Len(techStack[k].technologies) :
         FormEvent(removeTechnology(techStack[k].category,
                                    techStack[k].technologies[j]))

Spec == Init /\ [][Next]_vars

(***************************************************************************)
(* SpecLists: the list operations of the view, on longer lists.            *)
(***************************************************************************)
NextLists ==
  \/ \E x \in ListTeamInputs :
       Len(team) < ListMaxTeam /\ addTeamMember(x) /\ UNCHANGED events
  \/ \E index \in 0..(Len(team) - 1) : removeTeamMember(index) /\ UNCHANGED events
  \/ \E x \in ListMilestoneInputs :
       /\ Len(milestones) < ListMaxMilestones
       /\ Len(milestones) > 0 => ParseInt(milestones[Len(milestones)].id) < ListMaxId
       /\ addMilestone(x)
       /\ UNCHANGED events
  \/ \E k \in 1..Len(milestones) : removeMilestone(milestones[k].id) /\ UNCHANGED events
  \/ \E x \in ListTechInputs :
       techCount(techStack) < ListMaxTechs /\ addTechnology(x) /\ UNCHANGED events
  \/ \E k \in 1..Len(techStack) :
       \E j \in 1..Len(techStack[k].technologies) :
         /\ removeTechnology(techStack[k].category, techStack[k].technologies[j])
         /\ UNCHANGED events

SpecLists == Init /\ [][NextLists]_vars

(***************************************************************************)
(* SpecPdf: one call of generateProjectPDF.                                *)
(***************************************************************************)
\* a text of n lines
textOfLines(n) == Join([k \in 1..n |-> <<"a">>], <<"\n">>)

BaseProject ==
  [id |-> <<"P","R","J","-","2","0","2","6","-","1","1","-","A","A","A","A","A","A">>, uniqueCode |-> <<"P","R","J","-","2","0","2","6","-","1","1","-","A","A","A","A","A","A">>,
   name |-> <<"A","p","p">>, description |-> <<>>, sector |-> <<"T","I">>,
   status |-> "planning", startDate |-> <<"2","0","2","6","-","1","1","-","0","1">>,
   endDate |-> Undefined, projectManager |-> <<>>, team |-> <<Ana>>,
   milestones |-> <<>>, techStack |-> <<>>, repository |-> <<>>,
   documentation |-> <<>>, notes |-> <<>>, createdAt |-> 1, updatedAt |-> 1]

LongName == <<"S","i","s","t","e","m","a"," ","d","e"," ","G","e","s","t","ã","o"," ","F","i","n","a","n","c","e","i","r","a"," ","C","o","r","p","o","r","a","t","i","v","a"," ","A","v","a","n","ç","a","d","a">>

\* a name with a run of two spaces
SpacedName == <<"A","u","t","o"," "," ","D","o","c"," ","G","e","r","a","d","o","r"," ","d","e"," ","P","D","F">>

HeaderNames == { <<"A","p","p">>, LongName, SpacedName, <<"R","e","l","a","t","o","r","i","o","s"," ","T","r","i","m","e","s","t","r","a","i","s"," ","I","n","t","e","g","r","a","d","o","s">> }

HeaderTeams == { <<>>, <<Ana>>, <<Ana, <<"B","o","b">>, <<"C","a","r","l","a">>, <<"D","a","v","i">>>> }

KickoffMilestone ==
  [id |-> <<"1">>, title |-> Kickoff, description |-> <<>>, completed |-> FALSE]

AllOpts == [returnBlob : BOOLEAN, openPrint : BOOLEAN]

\* records that differ in what the header, the badge and the info card show
HeaderInputs ==
  { [project |-> [BaseProject EXCEPT !.name = n, !.status = s, !.team = t,
                                     !.milestones = m],
     headerColor |-> c, opts |-> o] :
      n \in HeaderNames, s \in ProjectStatus, t \in HeaderTeams,
      m \in { <<>>, <<KickoffMilestone>> }, c \in ViewColors, o \in AllOpts }

DescriptionLineCounts == {0, 1, 6, MaxDescLines}
MilestoneLineCounts   == {0, 1, 3}
NotesLineCounts       == {0, 1, 5}
MilestoneCounts       == {0, 1, 2, PdfMaxMilestones - 1, PdfMaxMilestones}
TechStackSizes        == {0, 1, Len(techCategories)}

\* n milestones whose descriptions have d1 lines (odd places) and d2 lines
\* (even places); every third is completed
milestoneList(n, d1, d2) ==
  [k \in 1..n |->
     [id |-> NumToString(k), title |-> <<"M">>,
      description |-> textOfLines(IF k % 2 = 1 THEN d1 ELSE d2),
      completed |-> (k % 3 = 0)]]

\* one group per category, for the first n categories
techStackOf(n) ==
  [k \in 1..n |-> [category |-> techCategories[k], technologies |-> <<React>>]]

Url == <<"h","t","t","p","s",":","/","/","a",".","b">>

\* records that differ in what decides the layout
LayoutInputs ==
  { [project |-> [BaseProject EXCEPT
                    !.description = textOfLines(d),
                    !.techStack = techStackOf(ts),
                    !.milestones = milestoneList(n, d1, d2),
                    !.repository = repo,
                    !.documentation = docu,
                    !.notes = textOfLines(nl)],
     headerColor |-> PDF_COLORS[1],
     opts |-> [returnBlob |-> TRUE, openPrint |-> FALSE]] :
      d \in DescriptionLineCounts, ts \in TechStackSizes,
      n \in MilestoneCounts, d1 \in MilestoneLineCounts,
      d2 \in MilestoneLineCounts, repo \in {<<>>, Url}, docu \in {<<>>, Url},
      nl \in NotesLineCounts }

PdfInputs == HeaderInputs \cup LayoutInputs

\* the call: const doc = new jsPDF() has one page
InitPdf ==
  /\ \E in \in PdfInputs :
       /\ project = in.project
       /\ headerColor = in.headerColor
       /\ opts = in.opts
  /\ pc = "qr"
  /\ yPosition = 0
  /\ pageCount = 1
  /\ msIndex = 0
  /\ footerIndex = 0
  /\ drawn = <<>>
  /\ result = NoResult
  /\ ViewIdle
  /\ events = 0
  /\ NameIdle

NextPdf ==
  \/ qrResolved
  \/ qrRejected
  \/ drawHeader
  \/ drawStatus
  \/ drawInfo
  \/ drawDescription
  \/ drawTechStack
  \/ drawMilestonesHeading
  \/ drawMilestone
  \/ endMilestones
  \/ drawLinks
  \/ drawNotes
  \/ drawFooter
  \/ output

SpecPdf == InitPdf /\ [][NextPdf]_vars

(***************************************************************************)
(* SpecName: one call of splitNameForHeader.                               *)
(***************************************************************************)
Letters == <<"a","b","c","d","e","f","g","h","i","j","k","l","m","n","o","p","q","r","s","t","u","v","w","x","y","z">>

\* a name of len characters with a space at every k-th place from off
\* (k = 0: no space at all, k = 1: nothing but spaces)
nameOf(len, k, off) ==
  [i \in 1..len |->
     IF k > 0 /\ (i + off) % k = 0 THEN " " ELSE Letters[(i % 26) + 1]]

SpacePeriods == {0, 1, 2, 5, 8, 11, 25}

Names ==
  { nameOf(len, k, off) : len \in 0..MaxNameLen, k \in SpacePeriods,
                          off \in 0..1 }
    \cup HeaderNames

InitName ==
  /\ name \in Names
  /\ truncated = <<>>
  /\ nameLines = <<>>
  /\ npc = "truncate"
  /\ ViewIdle
  /\ events = 0
  /\ PdfIdle

NextName ==
  \/ truncateStep
  \/ wrapStep

SpecName == InitName /\ [][NextName]_vars

(***************************************************************************)
(* SpecSubmit: the view together with the renderer calls its submissions   *)
(* make.  Every call waits for the encoder first; what follows the         *)
(* encoder's answer, up to the continuation of handleFormSubmit, runs      *)
(* without a user event in between, so the calls are followed one at a     *)
(* time and the view takes events only while none is being followed.       *)
(***************************************************************************)
\* generateProjectPDF(newProject, selectedColor, {returnBlob: true}) of
\* submission i, followed from its await of the encoder
generateProjectPDF(i) ==
  /\ pc = "idle"
  /\ subs[i].state = "awaiting"
  /\ subs' = [subs EXCEPT ![i].state = "rendering"]
  /\ project' = subs[i].project
  /\ headerColor' = subs[i].color
  /\ opts' = [returnBlob |-> TRUE, openPrint |-> FALSE]
  /\ pc' = "qr"
  /\ yPosition' = 0
  /\ pageCount' = 1
  /\ msIndex' = 0
  /\ footerIndex' = 0
  /\ drawn' = <<>>
  /\ result' = NoResult
  /\ UNCHANGED <<uniqueCode, team, milestones, techStack, selectedColor,
                 pdfPreviewUrl, created, revoked,
                 events, nameVars>>

\* the call has settled and its locals are gone: PdfIdle holds again
callOver ==
  /\ project' = NoProject
  /\ headerColor' = PDF_COLORS[1]
  /\ opts' = [returnBlob |-> FALSE, openPrint |-> FALSE]
  /\ pc' = "idle"
  /\ yPosition' = 0
  /\ pageCount' = 0
  /\ msIndex' = 0
  /\ footerIndex' = 0
  /\ drawn' = <<>>
  /\ result' = NoResult

\* handleFormSubmit after its await: blob instanceof Blob
blobReturned(i) ==
  /\ pc = "done"
  /\ result.kind = "blob"
  /\ subs[i].state = "rendering"
  /\ revoked' = revoked \cup revokedOnResolve(subs[i])
  /\ created' = created + 1
  /\ pdfPreviewUrl' = created + 1
  /\ subs' = [subs EXCEPT ![i].state = "done", ![i].url = created + 1]
  /\ callOver
  /\ UNCHANGED <<uniqueCode, team, milestones, techStack, selectedColor,
                 events, nameVars>>

\* mutant of callRejected: the failure is caught and the preview reset
callRejectedResetsPreview(i) ==
  /\ pc = "rejected"
  /\ subs[i].state = "rendering"
  /\ subs' = [subs EXCEPT ![i].state = "rejected"]
  /\ pdfPreviewUrl' = Null
  /\ callOver
  /\ UNCHANGED <<uniqueCode, team, milestones, techStack, selectedColor,
                 created, revoked,
                 events, nameVars>>

\* the await of handleFormSubmit throws: nothing after it runs, and nothing
\* catches it
callRejected(i) ==
  /\ pc = "rejected"
  /\ subs[i].state = "rendering"
  /\ subs' = [subs EXCEPT ![i].state = "rejected"]
  /\ callOver
  /\ UNCHANGED <<uniqueCode, team, milestones, techStack, selectedColor,
                 pdfPreviewUrl, created, revoked,
                 events, nameVars>>

\* a user event while no call is being followed
IdleEvent(A) == pc = "idle" /\ A

NextSubmit ==
  \/ \E data \in FormData, now \in Times :
       IdleEvent(FormEvent(handleFormSubmit(data, now)))
  \/ \E i \in 1..Len(subs) : generateProjectPDF(i)
  \/ qrResolved
  \/ qrRejected
  \/ drawHeader
  \/ drawStatus
  \/ drawInfo
  \/ drawDescription
  \/ drawTechStack
  \/ drawMilestonesHeading
  \/ drawMilestone
  \/ endMilestones
  \/ drawLinks
  \/ drawNotes
  \/ drawFooter
  \/ output
  \/ \E i \in 1..Len(subs) : blobReturned(i)
  \/ \E i \in 1..Len(subs) : callRejected(i)
  \/ IdleEvent(UserEvent(onOpenChange))
  \/ \E c \in ViewColors : IdleEvent(FormEvent(setSelectedColor(c)))
  \/ \E x \in ViewTeamInputs : IdleEvent(FormEvent(addTeamMember(x)))
  \/ \E x \in ViewMilestoneInputs : IdleEvent(FormEvent(addMilestone(x)))
  \/ \E x \in ViewTechInputs : IdleEvent(FormEvent(addTechnology(x)))

SpecSubmit == Init /\ [][NextSubmit]_vars

(***************************************************************************)
(* SpecTech: addTechnology and removeTechnology over all the categories,   *)
(* from tech stacks the form has reached by one add per category.          *)
(***************************************************************************)
TechMaxEvents == 2   \* tech-stack events in one behaviour of SpecTech

\* what the category select and the name input may hold
TechInputs ==
  { [category |-> techCategories[c], technology |-> t] :
      c \in 1..Len(techCategories), t \in { <<" ">>, React, <<"V","u","e"," ">> } }

InitTech ==
  /\ uniqueCode \in generateUniqueCode
  /\ team = <<>>
  /\ milestones = <<>>
  /\ \E n \in 0..Len(techCategories) : techStack = techStackOf(n)
  /\ selectedColor = PDF_COLORS[1]
  /\ pdfPreviewUrl = Null
  /\ subs = <<>>
  /\ created = 0
  /\ revoked = {}
  /\ events = 0
  /\ PdfIdle
  /\ NameIdle

\* a tech-stack event, counted
TechEvent(A) == events < TechMaxEvents /\ events' = events + 1 /\ A

NextTech ==
  \/ \E x \in TechInputs : TechEvent(addTechnology(x))
  \/ \E k \in 1..Len(techStack) :
       \E j \in 1..Len(techStack[k].technologies) :
         TechEvent(removeTechnology(techStack[k].category,
                                    techStack[k].technologies[j]))

SpecTech == InitTech /\ [][NextTech]_vars

(***************************************************************************)
(* The claims.                                                             *)
(***************************************************************************)
Indices(seq) == 1..Len(seq)

\* C1: the unique code never changes in any step of the view, and every
\* record a submission has built carries that code as uniqueCode and as id.
C1_UniqueCodeStable ==
  [][ /\ uniqueCode' = uniqueCode
      /\ \A i \in Indices(subs') :
           /\ subs'[i].project.uniqueCode = uniqueCode
           /\ subs'[i].project.id = uniqueCode ]_vars

\* a submission made after a team member was added and the colour changed
\* has completed, and its record carries the code of the view
C1_Witness ==
  \E i \in Indices(subs) :
    /\ subs[i].state = "done"
    /\ subs[i].project.team # <<>>
    /\ subs[i].color # PDF_COLORS[1]
    /\ subs[i].project.uniqueCode = uniqueCode

\* C2: whenever a step replaces a set preview URL by another URL, the
\* replaced URL has been revoked by the end of that step.
C2_ReplacedUrlRevoked ==
  [][ (pdfPreviewUrl # Null /\ pdfPreviewUrl' # Null
         /\ pdfPreviewUrl' # pdfPreviewUrl)
      => pdfPreviewUrl \in revoked' ]_vars

\* C3: every object URL that was created and is no longer the preview URL
\* of the view (superseded, or discarded by closing the dialog) is revoked,
\* so at most one created URL is not revoked.
C3_DiscardedUrlsRevoked ==
  /\ \A u \in 1..created : u # pdfPreviewUrl => u \in revoked
  /\ created - Cardinality(revoked) <= 1

allDescribed(ms) == \A k \in Indices(ms) : ms[k].description # <<>>

\* C4 as claimed: a finished render of a record with 12 milestones has more
\* than one page.
C4_TwelveMilestonesMultiPage ==
  (pc = "done" /\ Len(project.milestones) = 12) => pageCount > 1

\* C4 as amended: a finished render of a record with 12 milestones, each
\* with a non-empty description, has more than one page.
C4_TwelveDescribedMilestonesMultiPage ==
  (pc = "done" /\ Len(project.milestones) = 12
     /\ allDescribed(project.milestones))
  => pageCount > 1

C4_Witness ==
  /\ pc = "done"
  /\ Len(project.milestones) = 12
  /\ allDescribed(project.milestones)
  /\ project.description = <<>>
  /\ project.techStack = <<>>
  /\ pageCount = 2

footersOn(page) ==
  { j \in Indices(drawn) : drawn[j].block = "footer" /\ drawn[j].page = page }

EndsWith(s, suffix) ==
  /\ Len(s) >= Len(suffix)
  /\ SubSeq(s, Len(s) - Len(suffix) + 1, Len(s)) = suffix

pageOf(i, n) == <<"P","a","g","i","n","a"," ">> \o NumToString(i) \o <<" ","d","e"," ">> \o NumToString(n)

\* C5: a footer is on the page only once the layout is over; every footer
\* written reads "Pagina i de N" for its page i and the page count N of the
\* document; a finished document has exactly one footer on each page.
C5_FootersAfterLayout ==
  /\ \A j \in Indices(drawn) :
       drawn[j].block = "footer" =>
         /\ pc \in {"footer", "done"}
         /\ drawn[j].page \in 1..pageCount
         /\ Len(drawn[j].lines) = 1
         /\ EndsWith(drawn[j].lines[1], pageOf(drawn[j].page, pageCount))
  /\ \A i \in 1..pageCount : Cardinality(footersOn(i)) <= 1
  /\ pc = "done" => \A i \in 1..pageCount : Cardinality(footersOn(i)) = 1

\* a finished document of three pages
C5_Witness ==
  /\ pc = "done"
  /\ pageCount = 3
  /\ \A i \in 1..3 : Cardinality(footersOn(i)) = 1

ContentBlocks == {"info", "description", "techStack", "milestones", "links"}

\* the baseline of the last line of a text, in hundredths of a millimetre
lastBaseline(e) == 100 * e.y + (Len(e.lines) - 1) * lineHeight(e.size)

\* the texts of the content blocks
contentTexts ==
  { j \in Indices(drawn) :
      drawn[j].kind = "text" /\ drawn[j].block \in ContentBlocks }

\* C6: on a page, the text of a later content block starts below the last
\* line of every earlier content block; and the first content text of a
\* page started by a page break is at the top margin, 20.
C6_BlocksDoNotOverlap ==
  /\ \A i \in contentTexts : \A j \in contentTexts :
       (i < j /\ drawn[i].page = drawn[j].page
          /\ drawn[i].block # drawn[j].block)
       => 100 * drawn[j].y > lastBaseline(drawn[i])
  /\ \A j \in contentTexts :
       (drawn[j].page > 1
          /\ \A i \in contentTexts : i < j => drawn[i].page # drawn[j].page)
       => drawn[j].y = 20

isBare(p) ==
  /\ p.description = <<>>
  /\ p.techStack = <<>>
  /\ p.milestones = <<>>
  /\ p.repository = <<>>
  /\ p.documentation = <<>>
  /\ p.notes = <<>>

OptionalBlocks == {"description", "techStack", "milestones", "links", "notes"}

\* C7: for a record with no optional part, nothing of the optional sections
\* is drawn, no page is added, the render fails only if the encoder does
\* (before anything is drawn), and the finished document is one page with
\* the footer "Pagina 1 de 1".
C7_BareRecordSinglePage ==
  (pc # "idle" /\ isBare(project)) =>
    /\ \A j \in Indices(drawn) : drawn[j].block \notin OptionalBlocks
    /\ pageCount = 1
    /\ pc = "rejected" => drawn = <<>>
    /\ pc = "done" =>
         /\ result.kind \in {"blob", "print", "save"}
         /\ result.pages = 1
         /\ \E j \in Indices(drawn) :
              /\ footersOn(1) = {j}
              /\ EndsWith(drawn[j].lines[1], pageOf(1, 1))

C7_Witness ==
  /\ pc = "done"
  /\ isBare(project)
  /\ result.pages = 1
  /\ Cardinality(footersOn(1)) = 1

textsOf(block) ==
  { j \in Indices(drawn) : drawn[j].kind = "text" /\ drawn[j].block = block }

isScenario(p) ==
  /\ p.name = LongName
  /\ Len(p.name) = 49
  /\ p.sector = <<"T","I">>
  /\ p.status = "planning"
  /\ p.team = <<Ana>>
  /\ Len(p.milestones) = 1
  /\ p.milestones[1].title = Kickoff
  /\ p.milestones[1].completed = FALSE

\* C8: the finished render of the scenario record has the name on exactly
\* two header lines, the badge "Planejamento", and one milestone entry,
\* "1. Kickoff", with the unfilled indicator.
C8_Scenario ==
  (pc = "done" /\ isScenario(project)) =>
    /\ Cardinality(textsOf("name")) = 2
    /\ \A j \in textsOf("status") : drawn[j].lines = << <<"P","l","a","n","e","j","a","m","e","n","t","o">> >>
    /\ Cardinality(textsOf("status")) = 1
    /\ \E h \in textsOf("milestones") : \E t \in textsOf("milestones") :
         /\ textsOf("milestones") = {h, t}
         /\ h < t
         /\ drawn[t].lines = << <<"1","."," ","K","i","c","k","o","f","f">> >>
    /\ \E c \in Indices(drawn) :
         /\ { j \in Indices(drawn) : drawn[j].kind = "circle" } = {c}
         /\ drawn[c].style = "S"
         /\ drawn[c].block = "milestones"

C8_Witness ==
  /\ pc = "done"
  /\ isScenario(project)
  /\ \E j \in textsOf("name") : drawn[j].lines = << <<"F","i","n","a","n","c","e","i","r","a"," ","C",".",".",".">> >>

nonSpaces(s) == SelectSeq(s, LAMBDA c : c # " ")

RECURSIVE Concat(_)
Concat(parts) ==
  IF parts = <<>> THEN <<>> ELSE Head(parts) \o Concat(Tail(parts))

\* C9: the text that is wrapped is the first 30 characters of the name and
\* "..." (33 characters) when the name is longer than 30, and the name
\* itself otherwise; the lines returned hold the characters of that text.
C9_TruncateBeforeWrap ==
  (npc \in {"wrap", "done"}) =>
    /\ Len(name) > 30 =>
         /\ truncated = SubSeq(name, 1, 30) \o <<".",".",".">>
         /\ Len(truncated) = 33
    /\ Len(name) <= 30 => truncated = name
    /\ npc = "done" => nonSpaces(Concat(nameLines)) = nonSpaces(truncated)

C9_Witness ==
  /\ npc = "done"
  /\ Len(name) = 40
  /\ Len(truncated) = 33
  /\ Len(nameLines) > 1

\* the list without its j-th entry
without(seq, j) == SubSeq(seq, 1, j - 1) \o SubSeq(seq, j + 1, Len(seq))

\* C10: a step that is removeTechnology(category of group k, the j-th
\* technology of group k) removes group k when that was its only entry, and
\* otherwise leaves group k with its other entries, in their order.
C10_RemoveOneEntry ==
  [][ \A k \in Indices(techStack) :
        \A j \in Indices(techStack[k].technologies) :
          techStack' = removeTechnologyFrom(techStack, techStack[k].category,
                                            techStack[k].technologies[j])
          => techStack' =
               IF Len(techStack[k].technologies) = 1
               THEN without(techStack, k)
               ELSE [techStack EXCEPT ![k].technologies = without(@, j)] ]_vars

\* the places of the groups of a category
groupsOf(stack, category) ==
  { k \in Indices(stack) : stack[k].category = category }

\* C11: a step that is addTechnology with a non-blank name appends one
\* group holding that one name when no group has the category; otherwise
\* the number of groups is unchanged, the name is appended after the
\* entries of the group of that category, and every other group is as it
\* was.
C11_AddTechnologyGroups ==
  [][ \A x \in ListTechInputs :
        (Trim(x.technology) # <<>> /\ techStack' = addTechnologyTo(techStack, x))
        => IF groupsOf(techStack, x.category) = {}
           THEN /\ Len(techStack') = Len(techStack) + 1
                /\ SubSeq(techStack', 1, Len(techStack)) = techStack
                /\ techStack'[Len(techStack')].category = x.category
                /\ techStack'[Len(techStack')].technologies
                     = <<Trim(x.technology)>>
           ELSE /\ Len(techStack') = Len(techStack)
                /\ \A k \in Indices(techStack) :
                     /\ techStack'[k].category = techStack[k].category
                     /\ techStack'[k].technologies =
                          IF k \in groupsOf(techStack, x.category)
                          THEN techStack[k].technologies \o <<Trim(x.technology)>>
                          ELSE techStack[k].technologies ]_vars

\* two adds to a new category, after a group of another category: one group
\* with the two names in the order of their insertion
C11_Witness ==
  /\ Len(techStack) = 2
  /\ techStack[1].category # techStack[2].category
  /\ techStack[1].technologies = <<React>>
  /\ techStack[2].technologies = <<React, Vue>>

\* C12: a step that is addTeamMember with a non-blank name leaves a list from
\* which removeTeamMember of the last index gives the list before the step;
\* and a step that is removeTeamMember(i), 0 <= i < length, leaves the list
\* without its entry at place i, whatever the other entries are.
C12_AddRemoveTeamMember ==
  [][ /\ \A x \in ListTeamInputs :
           (Trim(x) # <<>> /\ team' = addTeamMemberTo(team, x))
           => /\ Len(team') = Len(team) + 1
              /\ removeTeamMemberFrom(team', Len(team') - 1) = team
      /\ \A i \in 0..(Len(team) - 1) :
           team' = removeTeamMemberFrom(team, i)
           => team' = without(team, i + 1) ]_vars

\* a team with the same name twice, around another one
C12_Witness ==
  /\ Len(team) = 3
  /\ team[1] = Ana
  /\ team[2] # Ana
  /\ team[3] = Ana

\* the draft: what a submission copies into the record
draft == <<uniqueCode, team, milestones, techStack, selectedColor>>

\* C13: a step that is addTeamMember, addMilestone or addTechnology with an
\* empty or whitespace-only name (title, for a milestone) changes neither
\* its list nor any other part of the draft.
C13_BlankAddIsNoOp ==
  [][ ( \/ \E x \in ViewTeamInputs : Trim(x) = <<>> /\ addTeamMember(x)
        \/ \E x \in ViewMilestoneInputs :
             Trim(x.title) = <<>> /\ addMilestone(x)
        \/ \E x \in ViewTechInputs :
             Trim(x.technology) = <<>> /\ addTechnology(x) )
      => UNCHANGED draft ]_vars

\* the view has handled events, the last ones adds with blank input, and
\* the lists hold what the one add with a name left
C13_Witness ==
  /\ events = MaxEvents
  /\ team = <<Ana>>
  /\ milestones = <<>>
  /\ techStack = <<>>
  /\ selectedColor = PDF_COLORS[1]
  /\ subs = <<>>

\* a is the beginning of b
isPrefix(a, b) == Len(a) <= Len(b) /\ SubSeq(b, 1, Len(a)) = a

\* a is b with entries deleted: the entries of a are entries of b, in the
\* order they have in b
RECURSIVE isSubseq(_, _)
isSubseq(a, b) ==
  IF a = <<>> THEN TRUE
  ELSE IF b = <<>> THEN FALSE
  ELSE IF Head(a) = Head(b) THEN isSubseq(Tail(a), Tail(b))
  ELSE isSubseq(a, Tail(b))

\* the categories of the groups, in the order of the groups
categoriesOf(stack) == [k \in Indices(stack) |-> stack[k].category]

\* the technologies as <<category, name>>, in the order of the groups and,
\* inside a group, of its entries
RECURSIVE entriesOf(_)
entriesOf(stack) ==
  IF stack = <<>> THEN <<>>
  ELSE [j \in Indices(Head(stack).technologies) |->
          <<Head(stack).category, Head(stack).technologies[j]>>]
       \o entriesOf(Tail(stack))

\* C14: in every step of the list operations, a team or milestone list
\* that grew has the previous list as its beginning, and one that did not
\* grow is the previous list with entries deleted; a tech stack that grew
\* holds the previous groups and technologies in their previous relative
\* order, and one that did not grow is the previous one with groups and
\* technologies deleted.
C14_OrderPreserved ==
  [][ /\ IF Len(team') > Len(team)
         THEN isPrefix(team, team') ELSE isSubseq(team', team)
      /\ IF Len(milestones') > Len(milestones)
         THEN isPrefix(milestones, milestones')
         ELSE isSubseq(milestones', milestones)
      /\ IF Len(entriesOf(techStack')) > Len(entriesOf(techStack))
         THEN /\ isPrefix(categoriesOf(techStack), categoriesOf(techStack'))
              /\ isSubseq(entriesOf(techStack), entriesOf(techStack'))
         ELSE /\ isSubseq(categoriesOf(techStack'), categoriesOf(techStack))
              /\ isSubseq(entriesOf(techStack'), entriesOf(techStack)) ]_vars

\* lists left by removals: the milestone numbered 2 is the first one, and
\* the groups are in the order of their creation, not of the categories
C14_Witness ==
  /\ Len(team) = 2 /\ team[2] = Ana /\ team[1] # Ana
  /\ Len(milestones) = 2
  /\ milestones[1].id = <<"2">>
  /\ milestones[2].id = <<"3">>
  /\ categoriesOf(techStack) = <<techCategories[2], techCategories[1]>>
  /\ techStack[2].technologies = <<Vue, React>>

\* C15: no step changes the record or the colour of a submission already
\* made; a step makes at most one submission, and the one it makes holds
\* the team, milestones, tech stack and colour of the draft as the step
\* found it, the unique code as id, and equal createdAt and updatedAt, and
\* is what the renderer is called with.
C15_RecordIsSnapshot ==
  [][ /\ Len(subs') \in {Len(subs), Len(subs) + 1}
      /\ \A i \in Indices(subs) :
           /\ subs'[i].project = subs[i].project
           /\ subs'[i].color = subs[i].color
      /\ Len(subs') = Len(subs) + 1 =>
           LET sub == subs'[Len(subs')]
           IN /\ sub.project.team = team
              /\ sub.project.milestones = milestones
              /\ sub.project.techStack = techStack
              /\ sub.color = selectedColor
              /\ sub.project.id = uniqueCode
              /\ sub.project.uniqueCode = uniqueCode
              /\ sub.project.createdAt = sub.project.updatedAt
              /\ sub.state = "awaiting"
              /\ UNCHANGED draft ]_vars

\* a render has resolved for a submission made before a team member was
\* added and the colour changed: its record has the team and the colour of
\* the submit
C15_Witness ==
  \E i \in Indices(subs) :
    /\ subs[i].state = "done"
    /\ subs[i].project.team = <<>>
    /\ team # <<>>
    /\ subs[i].color = PDF_COLORS[1]
    /\ selectedColor # PDF_COLORS[1]

\* C16: the step in which the encoder fails ends the call with a rejection:
\* nothing has been drawn, and no blob, saved file or print view is its
\* result.  The step that follows in the view leaves the preview URL as it
\* is, creates and revokes no URL and makes no submission; and a rejected
\* submission is never changed or called again.
C16_EncoderFailure ==
  [][ /\ (pc = "qr" /\ pc' # "header")
           => /\ pc' = "rejected"
              /\ drawn' = <<>>
              /\ result'.kind = "rejected"
              /\ UNCHANGED viewVars
      /\ pc = "rejected"
           => /\ pc' = "idle"
              /\ pdfPreviewUrl' = pdfPreviewUrl
              /\ created' = created
              /\ revoked' = revoked
              /\ Len(subs') = Len(subs)
              /\ \E i \in Indices(subs) :
                   /\ subs[i].state = "rendering"
                   /\ subs' = [subs EXCEPT ![i].state = "rejected"]
      /\ \A i \in Indices(subs) :
           subs[i].state = "rejected" => subs'[i] = subs[i]
      /\ Len(subs') > Len(subs) => events' = events + 1 ]_vars

\* a call has been rejected while the preview of another submission is
\* shown: that URL is still the preview URL and is not revoked
C16_Witness ==
  /\ pc = "idle"
  /\ pdfPreviewUrl # Null
  /\ pdfPreviewUrl \notin revoked
  /\ \E i \in Indices(subs) : subs[i].state = "rejected"
  /\ \E i \in Indices(subs) : subs[i].url = pdfPreviewUrl

\* the text with every run of spaces made one "_"
underscored(s) ==
  LET kept == SelectSeq([i \in Indices(s) |-> i],
                        LAMBDA i : ~IsSpace(s[i]) \/ i = 1 \/ ~IsSpace(s[i - 1]))
  IN [k \in Indices(kept) |-> IF IsSpace(s[kept[k]]) THEN "_" ELSE s[kept[k]]]

\* <uniqueCode>-<first 20 characters of the underscored name>.pdf
savedAs(p) ==
  p.uniqueCode \o <<"-">> \o SubSeq(underscored(p.name), 1, Min(20, Len(underscored(p.name))))
    \o <<".","p","d","f">>

\* C17: the record, the colour and the options of a call never change and
\* nothing is returned, opened or saved before the last footer is drawn;
\* the output step draws nothing and adds no page, so the pages are the
\* same whatever the options; and it does one thing: with returnBlob it
\* returns the blob and makes no other call, else with openPrint it opens
\* the print view and saves nothing, else it saves the file under the name
\* made of the unique code and the name.
C17_OneOutputAction ==
  [][ /\ project' = project /\ headerColor' = headerColor /\ opts' = opts
      /\ pc' \notin {"done", "rejected"} => result' = NoResult
      /\ pc' = "done" =>
           /\ pc = "footer"
           /\ drawn' = drawn
           /\ pageCount' = pageCount
           /\ result'.pages = pageCount
           /\ \A i \in 1..pageCount : Cardinality(footersOn(i)) = 1
           /\ IF opts.returnBlob
              THEN /\ result'.kind = "blob"
                   /\ result'.calls = <<>>
                   /\ result'.fileName = <<>>
              ELSE IF opts.openPrint
              THEN /\ result'.kind = "print"
                   /\ result'.calls = <<"createObjectURL", "window.open">>
                   /\ result'.fileName = <<>>
              ELSE /\ result'.kind = "save"
                   /\ result'.calls = <<"createObjectURL", "doc.save">>
                   /\ result'.fileName = savedAs(project) ]_vars

\* a file has been saved for a name with a run of spaces, longer than 20
\* characters once the runs are replaced
C17_Witness ==
  /\ pc = "done"
  /\ opts = [returnBlob |-> FALSE, openPrint |-> FALSE]
  /\ project.name = SpacedName
  /\ result.kind = "save"
  /\ result.fileName = project.uniqueCode \o <<"-","A","u","t","o","_","D","o","c","_","G","e","r","a","d","o","r","_","d","e","_",".","p","d","f">>

\* C18: the lines returned by splitNameForHeader are at least one, and
\* each has at most 20 characters.
C18_LinesWithinBudget ==
  npc = "done" =>
    /\ Len(nameLines) > 0
    /\ \A k \in Indices(nameLines) : Len(nameLines[k]) <= 20

\* C19: splitNameForHeader returns at most 3 lines, and for the number of
\* lines it returns the last name line, the sector line and the code line
\* (at headerY + 8 * lines + 9) are at most at 55, the height of the band.
C19_HeaderInsideBand ==
  npc = "done" =>
    /\ Len(nameLines) <= 3
    /\ headerY(Len(nameLines)) + (Len(nameLines) - 1) * 8 <= headerHeight
    /\ infoStartY(Len(nameLines)) <= headerHeight
    /\ infoStartY(Len(nameLines)) + 7 = headerY(Len(nameLines)) + 8 * Len(nameLines) + 9
    /\ infoStartY(Len(nameLines)) + 7 <= headerHeight

\* a name of 40 characters in words of ten is returned on three lines, the
\* code line at 51
C19_Witness ==
  /\ npc = "done"
  /\ Len(name) = 40
  /\ Len(nameLines) = 3
  /\ \A k \in Indices(nameLines) : Len(nameLines[k]) >= 10
  /\ infoStartY(Len(nameLines)) + 7 = 51

\* the texts the claim is about: the tech-stack and links lines, the
\* milestone titles (the text after the indicator) and the notes heading
isBoundedText(d, j) ==
  /\ d[j].kind = "text"
  /\ \/ d[j].block \in {"techStack", "links"}
     \/ d[j].block = "notes" /\ d[j].size = 12
     \/ d[j].block = "milestones" /\ j > 1 /\ d[j - 1].kind = "circle"

\* the k-th thing the step draws is on a new page at top + offset when the
\* cursor was above limit, and at the cursor + offset on the page otherwise
drawsAfterBreak(limit, k, offset) ==
  LET e == drawn'[Len(drawn) + k]
  IN IF yPosition > limit
     THEN /\ pageCount' = pageCount + 1
          /\ e.page = pageCount + 1
          /\ e.y = 20 + offset
     ELSE /\ pageCount' = pageCount
          /\ e.page = pageCount
          /\ e.y = yPosition + offset

\* C20: every tech-stack line, milestone title, links line and notes
\* heading is drawn at 260 at most, above the footer at 287; the
\* milestones heading is drawn on a new page at 20 when the cursor is
\* above 220, a milestone when it is above 260, the links heading when it
\* is above 240 and the notes when it is above 230, and where the cursor is
\* otherwise.
C20_CursorWithinPage ==
  [][ /\ \A j \in Indices(drawn') :
           isBoundedText(drawn', j)
           => /\ drawn'[j].y <= 260
              /\ drawn'[j].y < pageHeight - 10
      /\ Len(project.techStack) <= Len(techCategories)
      /\ Len(drawn') > Len(drawn) =>
           /\ pc = "milestones" => drawsAfterBreak(220, 1, 0)
           /\ pc = "milestone" =>
                /\ drawsAfterBreak(260, 1, -3)
                /\ drawsAfterBreak(260, 2, 0)
           /\ pc = "links" => drawsAfterBreak(240, 1, 0)
           /\ pc = "notes" => drawsAfterBreak(230, 1, 3)
      /\ pageCount' # pageCount => Len(drawn') > Len(drawn) ]_vars

\* a finished document of a record with a description, 8 tech-stack groups
\* (the last at 251), milestones that start a second page, and notes
C20_Witness ==
  /\ pc = "done"
  /\ Len(project.techStack) = 8
  /\ \E j \in Indices(drawn) :
       drawn[j].block = "techStack" /\ drawn[j].y = 251
  /\ \E j \in Indices(drawn) :
       /\ drawn[j].block = "milestones" /\ drawn[j].size = 12
       /\ drawn[j].page = 2 /\ drawn[j].y = 20
  /\ \E j \in Indices(drawn) :
       /\ isBoundedText(drawn, j) /\ drawn[j].block = "milestones"
       /\ drawn[j].page = 2 /\ drawn[j].y = 30
  /\ \E j \in Indices(drawn) : drawn[j].block = "notes"

\* C21: no two groups of the tech stack have the same category, no group
\* has an empty list of technologies, every category is one of the
\* enumerated ones, and there are at most 8 groups.
C21_TechStackWellFormed ==
  /\ \A k \in Indices(techStack) : \A l \in Indices(techStack) :
       techStack[k].category = techStack[l].category => k = l
  /\ \A k \in Indices(techStack) : techStack[k].technologies # <<>>
  /\ \A k \in Indices(techStack) :
       \E c \in Indices(techCategories) : techStack[k].category = techCategories[c]
  /\ Len(techStack) <= 8

\* eight groups, after the first group was removed with its only technology
\* and a group of its category was added again, at the end
C21_Witness ==
  /\ Len(techStack) = 8
  /\ events = TechMaxEvents
  /\ techStack[1].category = techCategories[2]
  /\ techStack[8].category = techCategories[1]
  /\ techStack[8].technologies = <<Vue>>

\* the identifiers of the list, as numbers, in list order
idsOf(ms) == [k \in Indices(ms) |-> ParseInt(ms[k].id)]

\* C22: the identifiers of the milestones are strictly increasing in list
\* order, hence pairwise distinct; a step that adds a milestone gives it
\* the identifier of the last entry plus one, or 1 in an empty list; and a
\* step that is removeMilestone(id) removes the one entry of that
\* identifier, or nothing when there is none.
C22_MilestoneIds ==
  [][ /\ \A k \in Indices(milestones') : \A l \in Indices(milestones') :
           k < l => idsOf(milestones')[k] < idsOf(milestones')[l]
      /\ Len(milestones') > Len(milestones) =>
           /\ Len(milestones') = Len(milestones) + 1
           /\ idsOf(milestones')[Len(milestones')] =
                IF milestones = <<>> THEN 1
                ELSE idsOf(milestones)[Len(milestones)] + 1
           /\ milestones'[Len(milestones')].id =
                NumToString(idsOf(milestones')[Len(milestones')])
      /\ \A n \in 1..(ListMaxId + 1) :
           removeMilestone(NumToString(n)) =>
             LET places == { k \in Indices(milestones) :
                              milestones[k].id = NumToString(n) }
             IN IF places = {} THEN milestones' = milestones
                ELSE \E k \in places :
                       /\ places = {k}
                       /\ milestones' = without(milestones, k) ]_vars

\* the second of three milestones was removed and a milestone added: the
\* identifiers are 1, 3, 4
C22_Witness ==
  /\ Len(milestones) = 3
  /\ idsOf(milestones) = <<1, 3, 4>>

\* C23: once every submission made has completed, the preview URL the view
\* holds (while the dialog is open) is the one produced for the submission
\* started last; submissions that do not overlap complete in the order
\* they started, so this speaks of the overlapping ones.
C23_LastStartedWins ==
  (/\ subs # <<>>
   /\ \A i \in Indices(subs) : subs[i].state = "done"
   /\ pdfPreviewUrl # Null)
  => pdfPreviewUrl = subs[Len(subs)].url

\* the words of a text: what is left between its spaces
wordsOf(s) == SelectSeq(Split(s, " "), LAMBDA w : w # <<>>)

\* the words of the lines, in the order of the lines
RECURSIVE wordsOfLines(_)
wordsOfLines(lines) ==
  IF lines = <<>> THEN <<>>
  ELSE wordsOf(Head(lines)) \o wordsOfLines(Tail(lines))

\* C24: for a name whose truncated form holds a non-space character, the
\* lines of splitNameForHeader joined with single spaces are the truncated
\* name with its runs of spaces collapsed to one space and without leading
\* or trailing spaces, and the words of the lines are the words of the
\* truncated name, in order, none split, dropped or duplicated.
C24_WrappingLosesNothing ==
  (npc = "done" /\ nonSpaces(truncated) # <<>>)
    => /\ Join(nameLines, <<" ">>) = Join(wordsOf(truncated), <<" ">>)
       /\ wordsOfLines(nameLines) = wordsOf(truncated)


\* C24, amended: the words of the lines of splitNameForHeader are the words
\* of the truncated name, in order, none split, dropped or duplicated; a
\* truncated name of more than 20 characters comes back with its runs of
\* spaces collapsed and its outer spaces removed, one of at most 20
\* characters comes back as the single line it is, spaces included.
C24_WordsKept ==
  (npc = "done" /\ nonSpaces(truncated) # <<>>)
    => /\ wordsOfLines(nameLines) = wordsOf(truncated)
       /\ Len(truncated) > 20
            => Join(nameLines, <<" ">>) = Join(wordsOf(truncated), <<" ">>)
       /\ Len(truncated) <= 20 => nameLines = <<truncated>>

\* a name with a run of two spaces has been wrapped into two lines
C24_Witness ==
  /\ npc = "done"
  /\ name = SpacedName
  /\ truncated = SpacedName
  /\ nameLines = << <<"A","u","t","o"," ","D","o","c"," ","G","e","r","a","d","o","r"," ","d","e">>,
                    <<"P","D","F">> >>
====
